---------------------------- MODULE Spec2Model ----------------------------
(***************************************************************************)
(* Radar-iRacing: the angular continuity / proximity engine                *)
(* (utils/math.ts), the update hook that owns the continuity state         *)
(* (hooks/useRadarUpdate.ts) with its WebSocket connection effect, and the *)
(* drawing of the cars (components/Radar.tsx, config/colors.ts).           *)
(*                                                                         *)
(* Numbers.  Angles are integers in hundredths of a radian, so Math.PI is  *)
(* 314 and 2 * Math.PI is 628.  Lengths are integers in metres.  A         *)
(* distance (the result of Math.sqrt) is carried as its square: sqrt is    *)
(* strictly increasing on the non-negative numbers, so every comparison    *)
(* the program makes between two distances, or between a distance and a    *)
(* radius, is the same comparison between the squares (LeRadius, Compare). *)
(* Only transformToRadarCoordinates, which multiplies a distance, takes    *)
(* the root itself (sqrt).  null, undefined, NaN, Infinity and -Infinity   *)
(* are integers outside the range of every angle and length.               *)
(***************************************************************************)
EXTENDS Integers, Sequences, FiniteSets, TLC

\* ------------------------------------------------------------------ bounds
\* longest car list of a frame received by the hook
MaxCars == 1
\* the hook model stops winding the yaw beyond this many full turns
MaxTurns == 1
\* sockets of torn-down effect instances that may still be closing
MaxStale == 1
\* longest car list handed to filterCarsInRange in the function-level model
MaxLen == 3
\* the function-level angle grid spans -MaxQuarter..MaxQuarter quarter turns
MaxQuarter == 6
\* longest car list handed to Radar in the function-level model
MaxDrawn == 2
\* log() calls counted beyond MAX_BUFFER_SIZE buffered strings
MaxOver == 1
\* the largest pixel distance, in hundredths of a pixel, that sqrtRounded
\* looks for
MaxHundredths == 20000

\* --------------------------------------------------------------- constants
PI == 314
NULL == -100000
NaN == 100000
\* undefined (an optional argument left out), Infinity and -Infinity
UNDEFINED == -100001
Infinity == 200000
NegInfinity == -200000
\* a double above 2^56 (7.2e16) and one below -2^56: its neighbours are 16
\* away, so adding or subtracting 2 * Math.PI (6.28...) rounds back to it
Huge == 150000
NegHuge == -150000

Abs(n) == IF n < 0 THEN -n ELSE n
isNaN(x) == x = NaN

\* ------------------------------------------------------------ utils/math.ts
Pos(x, y, z) == [x |-> x, y |-> y, z |-> z]

\* mutant: the horizontal distance, dz left out
calculateDistance_2D(pos1, pos2) ==
    LET dx == pos2.x - pos1.x
        dy == pos2.y - pos1.y
    IN  dx * dx + dy * dy

\* mutant: the distance of pos2 from the origin
calculateDistance_FromOrigin(pos1, pos2) ==
    pos2.x * pos2.x + pos2.y * pos2.y + pos2.z * pos2.z

\* Math.sqrt(dx*dx + dy*dy + dz*dz), carried as its square
calculateDistance(pos1, pos2) ==
    LET dx == pos2.x - pos1.x
        dy == pos2.y - pos1.y
        dz == pos2.z - pos1.z
    IN  dx * dx + dy * dy + dz * dz

\* while (delta > Math.PI) delta -= 2 * Math.PI
RECURSIVE WhileAbove(_)
WhileAbove(delta) == IF delta > PI THEN WhileAbove(delta - 2 * PI) ELSE delta

\* while (delta < -Math.PI) delta += 2 * Math.PI
RECURSIVE WhileBelow(_)
WhileBelow(delta) == IF delta < -PI THEN WhileBelow(delta + 2 * PI) ELSE delta

\* mutant: each loop written as an if, one correction at most
unwrapAngle_IfNotWhile(currentAngle, previousAngle) ==
    IF previousAngle = NULL \/ isNaN(previousAngle)
    THEN currentAngle
    ELSE IF isNaN(currentAngle)
    THEN NaN
    ELSE LET d0 == currentAngle - previousAngle
             d1 == IF d0 > PI THEN d0 - 2 * PI ELSE d0
             d2 == IF d1 < -PI THEN d1 + 2 * PI ELSE d1
         IN  previousAngle + d2

\* mutant: the difference is clamped to [-PI, PI] instead of being reduced by
\* full turns
unwrapAngle_Clamped(currentAngle, previousAngle) ==
    IF previousAngle = NULL \/ isNaN(previousAngle)
    THEN currentAngle
    ELSE IF isNaN(currentAngle)
    THEN NaN
    ELSE LET d == currentAngle - previousAngle
             delta == IF d > PI THEN PI ELSE IF d < -PI THEN -PI ELSE d
         IN  previousAngle + delta

\* mutant: only null is tested, so a NaN previous goes through the arithmetic
unwrapAngle_NullOnly(currentAngle, previousAngle) ==
    IF previousAngle = NULL
    THEN currentAngle
    ELSE IF isNaN(previousAngle) \/ isNaN(currentAngle)
    THEN NaN
    ELSE LET delta == WhileBelow(WhileAbove(currentAngle - previousAngle))
         IN  previousAngle + delta

\* mutant: at most one full turn is removed, whichever loop applies
unwrapAngle_OneTurn(currentAngle, previousAngle) ==
    IF previousAngle = NULL \/ isNaN(previousAngle)
    THEN currentAngle
    ELSE IF isNaN(currentAngle)
    THEN NaN
    ELSE LET d == currentAngle - previousAngle
             delta == IF d > PI THEN d - 2 * PI
                      ELSE IF d < -PI THEN d + 2 * PI ELSE d
         IN  previousAngle + delta

\* mutant: the angle is wrapped into [-PI, PI] whatever the previous one is
unwrapAngle_Wrapped(currentAngle, previousAngle) ==
    IF previousAngle = NULL \/ isNaN(previousAngle)
    THEN currentAngle
    ELSE IF isNaN(currentAngle)
    THEN NaN
    ELSE WhileBelow(WhileAbove(currentAngle))

\* a NaN current makes delta NaN: both loop conditions are false and
\* previousAngle + delta is NaN
unwrapAngle(currentAngle, previousAngle) ==
    IF previousAngle = NULL \/ isNaN(previousAngle)
    THEN currentAngle
    ELSE IF isNaN(currentAngle)
    THEN NaN
    ELSE LET delta == WhileBelow(WhileAbove(currentAngle - previousAngle))
         IN  previousAngle + delta

\* mutant: car.distance < radius
LeRadius_Strict(distance, radius) == radius > 0 /\ distance < radius * radius

\* mutant: car.distance >= radius
LeRadius_Inverted(distance, radius) == radius < 0 \/ distance >= radius * radius

\* car.distance <= radius, the distance being carried as its square
LeRadius(distance, radius) == radius >= 0 /\ distance <= radius * radius

\* mutant: b.distance - a.distance
Compare_Reversed(a, b) == b.distance - a.distance

\* (a.distance || 0) - (b.distance || 0): its sign, on squares
Compare(a, b) == a.distance - b.distance

\* cars.map(car => ({ ...car, distance }))
WithDistance(car, player) ==
    [car EXCEPT !.distance = calculateDistance(car.position, player.position)]

\* Array.prototype.filter
RECURSIVE Filter(_, _)
Filter(s, radius) ==
    IF s = << >> THEN << >>
    ELSE IF LeRadius(Head(s).distance, radius)
         THEN << Head(s) >> \o Filter(Tail(s), radius)
         ELSE Filter(Tail(s), radius)

\* mutant: an element is placed before the elements that compare equal to it
RECURSIVE InsertSorted_BeforeEquals(_, _)
InsertSorted_BeforeEquals(sorted, c) ==
    IF sorted = << >> THEN << c >>
    ELSE IF Compare(Head(sorted), c) < 0
         THEN << Head(sorted) >> \o InsertSorted_BeforeEquals(Tail(sorted), c)
         ELSE << c >> \o sorted

\* Array.prototype.sort is stable (ECMAScript 2019): an element is placed
\* after every element that does not compare greater than it
RECURSIVE InsertSorted(_, _)
InsertSorted(sorted, c) ==
    IF sorted = << >> THEN << c >>
    ELSE IF Compare(Head(sorted), c) <= 0
         THEN << Head(sorted) >> \o InsertSorted(Tail(sorted), c)
         ELSE << c >> \o sorted

RECURSIVE Sort(_)
Sort(s) ==
    IF s = << >> THEN << >>
    ELSE InsertSorted(Sort(SubSeq(s, 1, Len(s) - 1)), s[Len(s)])

filterCarsInRange(carList, pl, r) ==
    Sort(Filter([i \in 1..Len(carList) |-> WithDistance(carList[i], pl)], r))

\* mutant: the distance is assigned to the car it was given, and the array
\* it was given is sorted
InputAfterFilter_InPlace(carList, pl, r) == Sort([i \in 1..Len(carList) |-> WithDistance(carList[i], pl)])

\* the array filterCarsInRange was given, as the caller finds it after the
\* call: map and filter return new arrays, { ...car, distance } is a new
\* object, and sort sorts the array that filter returned
InputAfterFilter(carList, pl, r) == carList

\* transformToRadarCoordinates multiplies a distance by a sine, so there
\* Math.sqrt is the root itself: it is exact on the perfect squares, and the
\* calls of the model only produce perfect squares
sqrt(n) == CHOOSE r \in 0..n : r * r = n

\* Math.atan2, Math.sin, Math.cos at the multiples of a quarter turn, where
\* they are exactly 0, PI / 2, PI, -PI / 2 and 0, 1, -1; the calls of the
\* model keep every offset on an axis and every yaw on a quarter turn
atan2(dy, dx) ==
    CASE dy = 0 /\ dx >= 0 -> 0
      [] dy = 0 /\ dx < 0 -> PI
      [] dx = 0 /\ dy > 0 -> PI \div 2
      [] dx = 0 /\ dy < 0 -> -(PI \div 2)
sin(a) ==
    CASE a % (2 * PI) = 0 -> 0
      [] a % (2 * PI) = PI \div 2 -> 1
      [] a % (2 * PI) = PI -> 0
      [] a % (2 * PI) = 3 * (PI \div 2) -> -1
cos(a) ==
    CASE a % (2 * PI) = 0 -> 1
      [] a % (2 * PI) = PI \div 2 -> 0
      [] a % (2 * PI) = PI -> -1
      [] a % (2 * PI) = 3 * (PI \div 2) -> 0

\* mutant: the test of the horizontal distance is left out
transformToRadarCoordinates_NoShortCircuit(car, pl, unwrappedYaw, previousRelativeAngle) ==
    LET dx == car.position.x - pl.position.x
        dy == car.position.y - pl.position.y
        dz == car.position.z - pl.position.z
        distance == sqrt(dx * dx + dy * dy + dz * dz)
        horizontalDistance == sqrt(dx * dx + dy * dy)
        yawToUse == IF unwrappedYaw # UNDEFINED THEN unwrappedYaw ELSE pl.yaw
        relativeAngle ==
            IF previousRelativeAngle # UNDEFINED
            THEN unwrapAngle(atan2(dy, dx), previousRelativeAngle)
            ELSE atan2(dy, dx)
        radarAngle == relativeAngle - yawToUse
    IN  [x |-> horizontalDistance * sin(radarAngle),
         y |-> horizontalDistance * cos(radarAngle),
         distance |-> distance, relativeAngle |-> relativeAngle]

\* mutant: the rotation of the older math.ts, which puts the heading on the
\* x axis
transformToRadarCoordinates_HeadingOnX(car, pl, unwrappedYaw, previousRelativeAngle) ==
    LET dx == car.position.x - pl.position.x
        dy == car.position.y - pl.position.y
        dz == car.position.z - pl.position.z
        distance == sqrt(dx * dx + dy * dy + dz * dz)
        horizontalDistance == sqrt(dx * dx + dy * dy)
    IN  IF horizontalDistance * 1000 < 1
        THEN [x |-> 0, y |-> 0, distance |-> distance, relativeAngle |-> 0]
        ELSE LET yawToUse ==
                     IF unwrappedYaw # UNDEFINED THEN unwrappedYaw ELSE pl.yaw
                 relativeAngle ==
                     IF previousRelativeAngle # UNDEFINED
                     THEN unwrapAngle(atan2(dy, dx), previousRelativeAngle)
                     ELSE atan2(dy, dx)
                 radarAngle == relativeAngle - yawToUse
             IN  [x |-> horizontalDistance * cos(radarAngle),
                  y |-> horizontalDistance * sin(radarAngle),
                  distance |-> distance, relativeAngle |-> relativeAngle]

\* mutant: the bearing is never unwrapped against the previous angle
transformToRadarCoordinates_RawBearing(car, pl, unwrappedYaw, previousRelativeAngle) ==
    LET dx == car.position.x - pl.position.x
        dy == car.position.y - pl.position.y
        dz == car.position.z - pl.position.z
        distance == sqrt(dx * dx + dy * dy + dz * dz)
        horizontalDistance == sqrt(dx * dx + dy * dy)
    IN  IF horizontalDistance * 1000 < 1
        THEN [x |-> 0, y |-> 0, distance |-> distance, relativeAngle |-> 0]
        ELSE LET yawToUse ==
                     IF unwrappedYaw # UNDEFINED THEN unwrappedYaw ELSE pl.yaw
                 relativeAngle == atan2(dy, dx)
                 radarAngle == relativeAngle - yawToUse
             IN  [x |-> horizontalDistance * sin(radarAngle),
                  y |-> horizontalDistance * cos(radarAngle),
                  distance |-> distance, relativeAngle |-> relativeAngle]

\* horizontalDistance < 0.001 is horizontalDistance * 1000 < 1
transformToRadarCoordinates(car, pl, unwrappedYaw, previousRelativeAngle) ==
    LET dx == car.position.x - pl.position.x
        dy == car.position.y - pl.position.y
        dz == car.position.z - pl.position.z
        distance == sqrt(dx * dx + dy * dy + dz * dz)
        horizontalDistance == sqrt(dx * dx + dy * dy)
    IN  IF horizontalDistance * 1000 < 1
        THEN [x |-> 0, y |-> 0, distance |-> distance, relativeAngle |-> 0]
        ELSE LET yawToUse ==
                     IF unwrappedYaw # UNDEFINED THEN unwrappedYaw ELSE pl.yaw
                 relativeAngle ==
                     IF previousRelativeAngle # UNDEFINED
                     THEN unwrapAngle(atan2(dy, dx), previousRelativeAngle)
                     ELSE atan2(dy, dx)
                 radarAngle == relativeAngle - yawToUse
             IN  [x |-> horizontalDistance * sin(radarAngle),
                  y |-> horizontalDistance * cos(radarAngle),
                  distance |-> distance, relativeAngle |-> relativeAngle]

\* a / b as JavaScript divides: by zero it is NaN, Infinity or -Infinity;
\* otherwise the quotient, which the calls of the model keep whole
Divide(a, b) ==
    IF b = 0
    THEN IF a = 0 THEN NaN ELSE IF a > 0 THEN Infinity ELSE NegInfinity
    ELSE CHOOSE q \in (-Abs(a))..Abs(a) : q * b = a

\* a * b where b may be NaN, Infinity or -Infinity
Multiply(a, b) ==
    IF isNaN(b)
    THEN NaN
    ELSE IF b \in {Infinity, NegInfinity}
    THEN IF a = 0 THEN NaN
         ELSE IF (a > 0) = (b = Infinity) THEN Infinity ELSE NegInfinity
    ELSE a * b

\* worldToPixel has no test of its arguments and no throw statement
worldToPixel(worldX, worldY, worldRadius, pixelRadius) ==
    LET scale == Divide(pixelRadius, worldRadius)
    IN  [threw |-> FALSE, x |-> Multiply(worldX, scale),
         y |-> Multiply(worldY, scale)]

\* -------------------------------------- config/colors.ts, components/Radar.tsx
RADAR_COLORS ==
    [background |-> "#0A0A0A", border |-> "#333333", player |-> "#FFFFFF",
     grid |-> "#1A1A1A", text |-> "#CCCCCC"]

\* some of the names every object inherits from Object.prototype
ObjectPrototypeKeys == {"constructor", "toString", "__proto__"}

\* CAR_CLASS_COLORS[key]: the colour of an own key, the inherited member of
\* an Object.prototype name (a function or an object, never a string),
\* undefined for any other key
CAR_CLASS_COLORS(key) ==
    CASE key = "LMDh" -> "#FF0000"
      [] key = "LMP2" -> "#0080FF"
      [] key = "LMGT3" -> "#00FF00"
      [] key = "SafetyCar" -> "#FFFF00"
      [] key = "Unknown" -> "#FFFFFF"
      [] key \in ObjectPrototypeKeys -> "inherited"
      [] OTHER -> "undefined"

\* a || b: undefined is falsy, a colour string, a function and an object are
\* truthy
Or(a, b) == IF a = "undefined" THEN b ELSE a

\* ctx.fillStyle = value, ctx.strokeStyle = value: the canvas ignores a value
\* that is not a colour and keeps the style it had
SetStyle(style, value) == IF value = "inherited" THEN style ELSE value

\* the body of cars.forEach: what is drawn for one car, and the canvas
\* styles it leaves behind.  The point size 4 * (1 + max(0.5, 1 - d / r)) is
\* kept multiplied by 2 r; distFromCenter > pixelRadius is compared on the
\* squares, pixelRadius being positive in every call of the model.
DrawCar(car, pl, r, pixelRadius, showLabels, ctx) ==
    LET t == transformToRadarCoordinates(car, pl, UNDEFINED, UNDEFINED)
        centerX == pixelRadius
        centerY == pixelRadius
        pixel == worldToPixel(t.x, t.y, r, pixelRadius)
        screenX == centerX + pixel.x
        screenY == centerY - pixel.y
        distFromCenter == pixel.x * pixel.x + pixel.y * pixel.y
        far == 2 * r - 2 * t.distance
        pointSize2r == 4 * (2 * r + (IF far > r THEN far ELSE r))
        color == Or(CAR_CLASS_COLORS(car.class), CAR_CLASS_COLORS("Unknown"))
        fillStyle == SetStyle(ctx.fillStyle, color)
        strokeStyle == SetStyle(ctx.strokeStyle, color)
        label == showLabels /\ t.distance # 0 /\ t.distance * 10 < r * 7
    IN  IF distFromCenter > pixelRadius * pixelRadius
        THEN [visible |-> FALSE, x |-> t.x, y |-> t.y, screenX |-> screenX,
              screenY |-> screenY, pointSize2r |-> 0, fillStyle |-> "none",
              strokeStyle |-> "none", label |-> FALSE, ctx |-> ctx]
        ELSE [visible |-> TRUE, x |-> t.x, y |-> t.y, screenX |-> screenX,
              screenY |-> screenY, pointSize2r |-> pointSize2r,
              fillStyle |-> fillStyle, strokeStyle |-> strokeStyle,
              label |-> label,
              ctx |-> [fillStyle |-> IF label THEN RADAR_COLORS.text
                                     ELSE fillStyle,
                       strokeStyle |-> strokeStyle]]

RECURSIVE DrawCars(_, _, _, _, _, _)
DrawCars(carList, pl, r, pixelRadius, showLabels, ctx) ==
    IF carList = << >>
    THEN << >>
    ELSE LET drawn == DrawCar(Head(carList), pl, r, pixelRadius, showLabels, ctx)
         IN  << drawn >> \o DrawCars(Tail(carList), pl, r, pixelRadius,
                                     showLabels, drawn.ctx)

\* the effect of Radar: the background leaves fillStyle at
\* RADAR_COLORS.background, the grid leaves strokeStyle at RADAR_COLORS.grid,
\* then the cars are drawn in order
Radar(pl, carList, r, pixelRadius, showLabels) ==
    DrawCars(carList, pl, r, pixelRadius, showLabels,
             [fillStyle |-> RADAR_COLORS.background,
              strokeStyle |-> RADAR_COLORS.grid])


\* ------------------------------------------------- hooks/useRadarUpdate.ts
VARIABLES
    \* React state of the hook
    player, cars, isConnected,
    \* refs of the hook: the continuity state
    previousYawRef, previousCarPositionsRef, previousRelativeAnglesRef,
    previousPlayerPositionRef,
    \* the radius option (App's state)
    radius,
    \* the connection effect's closure: its socket's state, whether its
    \* reconnect timer is pending, its isMounted flag
    ws, reconnectTimeout, isMounted,
    \* sockets of torn-down effect instances whose close has not fired yet
    staleSockets,
    \* history: the frame last handed to updateRadar, the number of sockets
    \* that opened (counted up to 2), the number of frames the current socket
    \* delivered (counted up to 2), whether the current socket was created by
    \* the reconnect timer, what happened last: a frame or a malformed message
    \* was received, the test data were loaded, or another handler ran
    lastFrame, opens, framesOnSocket, viaReconnect, lastEvent,
    \* history: the parity of the calls of connectWebSocket in which
    \* new WebSocket threw, since a socket was last constructed
    thrown,
    \* function-level model: the pure call in progress
    call,
    \* utils/logger.ts, module level: the number of strings in logBuffer,
    \* flushInterval ("null", the id of a running interval, or the id of a
    \* cleared one), whether localStorage holds app_logs, and where the
    \* module runs
    logBuffer, flushInterval, storedLogs, env,
    \* electron/main.cjs: the content of overlay-config.json, the bounds of
    \* overlayWindow (NullObject without a window), and the window's last
    \* event
    configFile, overlayWindow, windowEvent,
    \* two instances of the hook: their refs and state, and the instance
    \* that ingested last
    sessions, lastSession

hookVars == << player, cars, isConnected, previousYawRef,
               previousCarPositionsRef, previousRelativeAnglesRef,
               previousPlayerPositionRef, radius, ws, reconnectTimeout,
               isMounted, staleSockets, lastFrame, opens, framesOnSocket,
               viaReconnect, lastEvent, thrown >>
\* the state outside the hook and the pure calls
loggerVars == << logBuffer, flushInterval, storedLogs, env >>
windowVars == << configFile, overlayWindow, windowEvent >>
sessionVars == << sessions, lastSession >>
restVars == << loggerVars, windowVars, sessionVars >>
\* the state outside the hook
otherVars == << call, restVars >>
vars == << hookVars, otherVars >>

Origin == Pos(0, 0, 0)
\* main.cjs line 6: no window yet
NullObject == [null |-> TRUE]
\* a position that a frame does not have (car.position is undefined)
Undefined == [undefined |-> TRUE]
NoFrame == [player |-> [position |-> Origin, yaw |-> NULL], cars |-> << >>]
NoCall == [fn |-> "none"]

\* a car as received: no distance yet
Car(position, class) == [position |-> position, class |-> class, distance |-> NULL]

\* inputs of the hook model
Yaws == {-300, 0, 300}
Radii == {20, 50}
FrameCars == {Car(Pos(3, 4, 0), "LMDh"), Car(Pos(30, 40, 0), "LMP2")}
CarLists(S, n) == UNION {[1..k -> S] : k \in 0..n}
\* a frame has player and cars; a player without a numeric yaw (the field is
\* missing) is one whose yaw is NaN in every computation
Frames == [player : [position : {Origin}, yaw : Yaws \cup {NaN}],
           cars : CarLists(FrameCars, MaxCars)]
\* what event.data can be: a frame, JSON without player, JSON without cars,
\* text that JSON.parse rejects; an absent field is a placeholder that no
\* handler reads
Messages ==
    [parses : {TRUE}, hasPlayer : {TRUE}, hasCars : {TRUE},
     player : [position : {Origin}, yaw : Yaws \cup {NaN}],
     cars : CarLists(FrameCars, MaxCars)]
    \cup [parses : {TRUE}, hasPlayer : {FALSE}, hasCars : {TRUE},
           player : {NoFrame.player}, cars : CarLists(FrameCars, MaxCars)]
    \cup [parses : {TRUE}, hasPlayer : {TRUE}, hasCars : {FALSE},
           player : [position : {Origin}, yaw : Yaws], cars : {<< >>}]
    \cup [parses : {FALSE}, hasPlayer : {FALSE}, hasCars : {FALSE},
           player : {NoFrame.player}, cars : {<< >>}]
Up2(n) == IF n < 2 THEN n + 1 ELSE 2

\* App's handleTestData: yaw Math.PI / 4, four cars that carry a distance
TestPlayer == [position |-> Origin, yaw |-> PI \div 4]
TestCars ==
    << [position |-> Pos(5, 5, 0), class |-> "LMDh", distance |-> 50],
       [position |-> Pos(-8, 3, 0), class |-> "LMGT3", distance |-> 73],
       [position |-> Pos(10, -10, 0), class |-> "LMP2", distance |-> 200],
       [position |-> Pos(-5, -12, 0), class |-> "SafetyCar", distance |-> 169] >>

\* mutant: a new Map is built from every frame
SetPositions_NewMap(map, newCars) == [k \in {i - 1 : i \in 1..Len(newCars)} |-> newCars[k + 1].position]

\* previousCarPositionsRef.current.set(index, car.position) for every car
SetPositions(map, newCars) ==
    [k \in DOMAIN map \cup {i - 1 : i \in 1..Len(newCars)} |->
        IF k < Len(newCars) THEN newCars[k + 1].position ELSE map[k]]

\* mutant: the raw yaw is used as it comes
UnwrappedYaw_Raw(newPlayer) == newPlayer.yaw

\* mutant: without a previous yaw the yaw is brought into [0, 2 PI)
UnwrappedYaw_SeedNormalised(newPlayer) ==
    IF previousYawRef # NULL
    THEN unwrapAngle(newPlayer.yaw, previousYawRef)
    ELSE IF isNaN(newPlayer.yaw) THEN NaN ELSE newPlayer.yaw % (2 * PI)

UnwrappedYaw(newPlayer) ==
    IF previousYawRef # NULL
    THEN unwrapAngle(newPlayer.yaw, previousYawRef)
    ELSE newPlayer.yaw

\* mutant: the raw yaw is stored as the previous yaw
updateRadar_StoresRaw(newPlayer, newCars) ==
    LET unwrappedYaw == UnwrappedYaw(newPlayer)
        playerWithUnwrappedYaw ==
            [position |-> newPlayer.position, yaw |-> unwrappedYaw]
    IN  /\ previousYawRef' = newPlayer.yaw
        /\ previousPlayerPositionRef' = newPlayer.position
        /\ previousCarPositionsRef' = SetPositions(previousCarPositionsRef, newCars)
        /\ player' = playerWithUnwrappedYaw
        /\ cars' = filterCarsInRange(newCars, playerWithUnwrappedYaw, radius)
        /\ lastFrame' = [player |-> newPlayer, cars |-> newCars]
        /\ UNCHANGED previousRelativeAnglesRef

updateRadar(newPlayer, newCars) ==
    LET unwrappedYaw == UnwrappedYaw(newPlayer)
        playerWithUnwrappedYaw ==
            [position |-> newPlayer.position, yaw |-> unwrappedYaw]
    IN  /\ previousYawRef' = unwrappedYaw
        /\ previousPlayerPositionRef' = newPlayer.position
        /\ previousCarPositionsRef' = SetPositions(previousCarPositionsRef, newCars)
        /\ player' = playerWithUnwrappedYaw
        /\ cars' = filterCarsInRange(newCars, playerWithUnwrappedYaw, radius)
        /\ lastFrame' = [player |-> newPlayer, cars |-> newCars]
        /\ UNCHANGED previousRelativeAnglesRef

\* updateRadar reads .x of a position that is not there and throws.
\* Line 50 reads newPlayer.position.x, line 51 prevPos.x
ThrowsAtPlayer(newPlayer) ==
    /\ previousPlayerPositionRef # NullObject
    /\ \/ newPlayer.position = Undefined
       \/ previousPlayerPositionRef = Undefined
\* line 67 reads car.position.x when the slot of the car holds a previous
\* position: the first such car (counted from 1), 0 when there is none
ThrowsAtCar(newCars) ==
    LET at == {i \in 1..Len(newCars) :
                  /\ newCars[i].position = Undefined
                  /\ (i - 1) \in DOMAIN previousCarPositionsRef
                  /\ previousCarPositionsRef[i - 1] # Undefined}
    IN  IF at = {} THEN 0 ELSE CHOOSE i \in at : \A j \in at : i <= j
\* line 89: calculateDistance reads pos1.x and pos2.x for the first car, and
\* pos1.x for every other car
ThrowsInFilter(newPlayer, newCars) ==
    /\ Len(newCars) > 0
    /\ \/ newPlayer.position = Undefined
       \/ \E i \in 1..Len(newCars) : newCars[i].position = Undefined
Throws(newPlayer, newCars) ==
    \/ ThrowsAtPlayer(newPlayer)
    \/ ThrowsAtCar(newCars) # 0
    \/ ThrowsInFilter(newPlayer, newCars)

\* updateRadar up to the statement that throws: what lines 43, 59 and 77 had
\* written by then stays written, setPlayer and setCars are not reached
updateRadarThrows(newPlayer, newCars) ==
    /\ previousYawRef' = UnwrappedYaw(newPlayer)
    /\ IF ThrowsAtPlayer(newPlayer)
       THEN UNCHANGED << previousPlayerPositionRef, previousCarPositionsRef >>
       ELSE /\ previousPlayerPositionRef' = newPlayer.position
            /\ previousCarPositionsRef' =
                  IF ThrowsAtCar(newCars) # 0
                  THEN SetPositions(previousCarPositionsRef,
                                    SubSeq(newCars, 1, ThrowsAtCar(newCars) - 1))
                  ELSE SetPositions(previousCarPositionsRef, newCars)
    /\ UNCHANGED << player, cars, lastFrame, previousRelativeAnglesRef >>

\* a call of updateRadar, whether it returns or throws
CallUpdateRadar(newPlayer, newCars) ==
    IF Throws(newPlayer, newCars)
    THEN updateRadarThrows(newPlayer, newCars)
    ELSE updateRadar(newPlayer, newCars)

\* connectWebSocket: new WebSocket(url) succeeds, or throws and the catch
\* block schedules a retry
connectWebSocket ==
    /\ framesOnSocket' = 0
    /\ \/ /\ ws' = "connecting"
          /\ reconnectTimeout' = FALSE
          /\ thrown' = FALSE
          /\ UNCHANGED isConnected
       \/ /\ ws' = "none"
          /\ reconnectTimeout' = TRUE
          /\ thrown' = ~thrown
          /\ isConnected' = FALSE

\* the hook's state on its first render, after the connection effect ran
InitHook ==
    /\ player = [position |-> Origin, yaw |-> 0]
    /\ cars = << >>
    /\ isConnected = FALSE
    /\ previousYawRef = NULL
    /\ previousCarPositionsRef = << >>
    /\ previousRelativeAnglesRef = << >>
    /\ previousPlayerPositionRef = NullObject
    /\ radius \in Radii
    /\ \/ ws = "connecting" /\ reconnectTimeout = FALSE
       \/ ws = "none" /\ reconnectTimeout = TRUE
    /\ isMounted = TRUE
    /\ staleSockets = 0
    /\ lastFrame = NoFrame
    /\ opens = 0
    /\ framesOnSocket = 0
    /\ viaReconnect = FALSE
    /\ lastEvent = "none"
    /\ thrown = (ws = "none")
    /\ call = NoCall

\* logger.ts lines 6-8: an empty buffer, no interval
LoggerStart ==
    /\ logBuffer = 0
    /\ flushInterval = "null"
    /\ storedLogs = FALSE
WindowStart ==
    /\ overlayWindow = NullObject
    /\ windowEvent = "none"
\* a hook instance on its first render (lines 22-34)
FreshSession ==
    [player |-> [position |-> Origin, yaw |-> 0], cars |-> << >>,
     previousYawRef |-> NULL, previousCarPositionsRef |-> << >>]
SessionIds == {1, 2}
SessionsStart ==
    /\ sessions = [s \in SessionIds |-> FreshSession]
    /\ lastSession = 0
\* fs.existsSync(configPath) is false
NoFile == [exists |-> FALSE]

Init ==
    /\ InitHook
    /\ LoggerStart
    /\ env = "browser"
    /\ WindowStart
    /\ configFile = NoFile
    /\ SessionsStart

contVars == << previousYawRef, previousCarPositionsRef,
               previousRelativeAnglesRef, previousPlayerPositionRef >>
outVars == << player, cars >>

\* ws.onopen
WsOpen ==
    /\ ws = "connecting"
    /\ ws' = "open"
    /\ opens' = Up2(opens)
    /\ isConnected' = IF isMounted THEN TRUE ELSE isConnected
    /\ lastEvent' = "other"
    /\ UNCHANGED << contVars, outVars, radius, reconnectTimeout, isMounted,
                    staleSockets, lastFrame, framesOnSocket, viaReconnect, thrown,
                    otherVars >>

\* sums and differences of doubles: a sum with a Huge term is that term
Absorbs(x) == Abs(x) >= Huge
FloatAdd(a, b) == IF Absorbs(a) THEN a ELSE IF Absorbs(b) THEN b ELSE a + b
FloatSub(a, b) == IF a = b THEN 0 ELSE FloatAdd(a, -b)

\* unwrapAngle(yaw, previousYawRef.current) computes a delta beyond 2^56
UnwrapDiverges(yaw) ==
    /\ previousYawRef # NULL
    /\ ~isNaN(previousYawRef)
    /\ ~isNaN(yaw)
    /\ Absorbs(FloatSub(yaw, previousYawRef))

\* the model stops winding the yaw beyond MaxTurns full turns, and runs a
\* call of unwrapAngle that does not return step by step
WithinTurns(newPlayer) ==
    /\ ~UnwrapDiverges(newPlayer.yaw)
    /\ \/ isNaN(UnwrappedYaw(newPlayer))
       \/ Abs(UnwrappedYaw(newPlayer)) <= MaxTurns * 2 * PI + PI

\* mutant: data.player alone is tested
Accepted_PlayerOnly(data) == data.parses /\ data.hasPlayer

\* JSON.parse(event.data) did not throw, and data.player && data.cars
Accepted(data) == data.parses /\ data.hasPlayer /\ data.hasCars

\* what was received, whatever the handler does with it
MessageKind(data) ==
    IF data.parses /\ data.hasPlayer /\ data.hasCars THEN "frame" ELSE "malformed"

\* ws.onmessage: a frame that has player and cars goes to updateRadar, any
\* other message is logged (logWarn, or logError in the catch block)
WsMessage ==
    /\ ws = "open"
    /\ isMounted
    /\ \E data \in Messages :
        /\ lastEvent' = IF Accepted(data) /\ Throws(data.player, data.cars)
                        THEN "thrown"
                        ELSE MessageKind(data)
        /\ IF Accepted(data)
           THEN /\ WithinTurns(data.player)
                /\ CallUpdateRadar(data.player, data.cars)
                /\ framesOnSocket' = Up2(framesOnSocket)
           ELSE UNCHANGED << contVars, outVars, lastFrame, framesOnSocket >>
    /\ UNCHANGED << isConnected, radius, ws, reconnectTimeout, isMounted,
                    staleSockets, opens, viaReconnect, thrown,
                    otherVars >>

\* App's "Charger donnees de test" button calls updateRadar directly
HandleTestData ==
    /\ isMounted
    /\ WithinTurns(TestPlayer)
    /\ CallUpdateRadar(TestPlayer, TestCars)
    /\ lastEvent' = IF Throws(TestPlayer, TestCars) THEN "thrown" ELSE "test"
    /\ UNCHANGED << isConnected, radius, ws, reconnectTimeout, isMounted,
                    staleSockets, opens, framesOnSocket, viaReconnect, thrown,
                    otherVars >>

\* ws.onerror; the browser fires close after it
\* mutant: onerror schedules a reconnection as onclose does
WsError_SchedulesRetry ==
    /\ ws \in {"connecting", "open"}
    /\ ws' = "closing"
    /\ isConnected' = IF isMounted THEN FALSE ELSE isConnected
    /\ reconnectTimeout' = IF isMounted THEN TRUE ELSE reconnectTimeout
    /\ lastEvent' = "other"
    /\ UNCHANGED << contVars, outVars, radius, isMounted, staleSockets,
                    lastFrame, opens, framesOnSocket, viaReconnect, thrown,
                    otherVars >>

\* ws.onerror; the browser fires close after it
WsError ==
    /\ ws \in {"connecting", "open"}
    /\ ws' = "closing"
    /\ isConnected' = IF isMounted THEN FALSE ELSE isConnected
    /\ lastEvent' = "other"
    /\ UNCHANGED << contVars, outVars, radius, reconnectTimeout, isMounted,
                    staleSockets, lastFrame, opens, framesOnSocket, viaReconnect,
                    thrown,
                    otherVars >>

\* mutant: onclose does not test isMounted
WsClose_Unguarded ==
    /\ ws \in {"connecting", "open", "closing"}
    /\ ws' = "closed"
    /\ isConnected' = FALSE
    /\ reconnectTimeout' = TRUE
    /\ lastEvent' = "other"
    /\ UNCHANGED << contVars, outVars, radius, isMounted, staleSockets,
                    lastFrame, opens, framesOnSocket, viaReconnect, thrown,
                    otherVars >>

\* ws.onclose
WsClose ==
    /\ ws \in {"connecting", "open", "closing"}
    /\ ws' = "closed"
    /\ isConnected' = IF isMounted THEN FALSE ELSE isConnected
    /\ reconnectTimeout' = IF isMounted THEN TRUE ELSE reconnectTimeout
    /\ lastEvent' = "other"
    /\ UNCHANGED << contVars, outVars, radius, isMounted, staleSockets,
                    lastFrame, opens, framesOnSocket, viaReconnect, thrown,
                    otherVars >>

\* the setTimeout callback of onclose / of the catch block
ReconnectTimer ==
    /\ reconnectTimeout
    /\ isMounted
    /\ connectWebSocket
    /\ viaReconnect' = TRUE
    /\ lastEvent' = "other"
    /\ UNCHANGED << contVars, outVars, radius, isMounted, staleSockets,
                    lastFrame, opens, otherVars >>

\* the effect's cleanup: isMounted = false, clearTimeout, ws.close()
CleanupLeavesStale == ws \in {"connecting", "open", "closing"}

\* App's setRadius: updateRadar is re-created, so the connection effect is
\* cleaned up and run again
SetRadius ==
    /\ isMounted
    /\ \E r \in Radii \ {radius} : radius' = r
    /\ IF CleanupLeavesStale
       THEN staleSockets < MaxStale /\ staleSockets' = staleSockets + 1
       ELSE UNCHANGED staleSockets
    /\ connectWebSocket
    /\ viaReconnect' = FALSE
    /\ lastEvent' = "other"
    /\ UNCHANGED << contVars, outVars, isMounted, lastFrame, opens, otherVars >>

\* onclose of a socket whose effect instance was torn down: isMounted is
\* false in its closure
StaleClose ==
    /\ staleSockets > 0
    /\ staleSockets' = staleSockets - 1
    /\ lastEvent' = "other"
    /\ UNCHANGED << contVars, outVars, isConnected, radius, ws,
                    reconnectTimeout, isMounted, lastFrame, opens,
                    framesOnSocket, viaReconnect, thrown,
                    otherVars >>

\* onopen, onmessage and onerror of such a socket: each handler tests
\* isMounted, which the cleanup set to false, and does nothing
StaleOpen ==
    /\ staleSockets > 0
    /\ lastEvent' = "other"
    /\ UNCHANGED << contVars, outVars, isConnected, radius, ws,
                    reconnectTimeout, isMounted, staleSockets, lastFrame, opens,
                    framesOnSocket, viaReconnect, thrown,
                    otherVars >>
StaleMessage ==
    /\ staleSockets > 0
    /\ lastEvent' = "other"
    /\ UNCHANGED << contVars, outVars, isConnected, radius, ws,
                    reconnectTimeout, isMounted, staleSockets, lastFrame, opens,
                    framesOnSocket, viaReconnect, thrown,
                    otherVars >>
StaleError ==
    /\ staleSockets > 0
    /\ lastEvent' = "other"
    /\ UNCHANGED << contVars, outVars, isConnected, radius, ws,
                    reconnectTimeout, isMounted, staleSockets, lastFrame, opens,
                    framesOnSocket, viaReconnect, thrown,
                    otherVars >>

\* the hook is unmounted: the cleanup runs and no effect follows
Unmount ==
    /\ isMounted
    /\ isMounted' = FALSE
    /\ reconnectTimeout' = FALSE
    /\ ws' = IF ws \in {"connecting", "open"} THEN "closing" ELSE ws
    /\ lastEvent' = "other"
    /\ UNCHANGED << contVars, outVars, isConnected, radius, staleSockets,
                    lastFrame, opens, framesOnSocket, viaReconnect, thrown,
                    otherVars >>

Next ==
    \/ WsOpen
    \/ WsMessage
    \/ HandleTestData
    \/ WsError
    \/ WsClose
    \/ ReconnectTimer
    \/ SetRadius
    \/ StaleOpen
    \/ StaleMessage
    \/ StaleError
    \/ StaleClose
    \/ Unmount

Spec == Init /\ [][Next]_vars

\* The server can send any JSON: a frame whose player or whose car has no
\* position passes the test data.player && data.cars of line 170
UntypedCars == FrameCars \cup {Car(Undefined, "LMDh")}
UntypedFrames == [player : [position : {Origin, Undefined}, yaw : Yaws],
                  cars : CarLists(UntypedCars, MaxCars)]

\* ws.onmessage for such a frame: the catch block of lines 176-180 logs what
\* updateRadar throws
WsMessageUntyped ==
    /\ ws = "open"
    /\ isMounted
    /\ \E data \in UntypedFrames :
        /\ WithinTurns(data.player)
        /\ CallUpdateRadar(data.player, data.cars)
        /\ lastEvent' = IF Throws(data.player, data.cars)
                        THEN "thrown"
                        ELSE "frame"
    /\ framesOnSocket' = Up2(framesOnSocket)
    /\ UNCHANGED << isConnected, radius, ws, reconnectTimeout, isMounted,
                    staleSockets, opens, viaReconnect, thrown,
                    otherVars >>

NextUntyped ==
    \/ WsOpen
    \/ WsMessage
    \/ WsMessageUntyped
    \/ HandleTestData

SpecUntyped == Init /\ [][NextUntyped]_vars


\* ------------------------------------------- function-level model of math.ts
\* One pure function is called with arguments drawn from bounded sets and
\* returns; the hook does not run.
MathAngles ==
    {q * (PI \div 2) + e : q \in (-MaxQuarter)..MaxQuarter, e \in {-1, 0, 1}}
        \cup {300, -310, 310}
MathPositions == {Pos(3, 4, 0), Pos(4, 3, 0), Pos(3, 0, 4), Pos(1, 0, 0),
                  Pos(0, 0, 0), Pos(6, 8, 0)}
MathCars == {Car(p, "LMDh") : p \in MathPositions}
MathPlayers == [position : {Origin, Pos(0, 0, 3)}, yaw : {0}]
MathRadii == {-1, 0, 4, 5}
\* the first three cars of App's test data and a fourth one 25 m away:
\* distances 7.07, 8.54, 14.14, 25
ScenarioCars == << Car(Pos(5, 5, 0), "LMDh"), Car(Pos(-8, 3, 0), "LMGT3"),
                   Car(Pos(10, -10, 0), "LMP2"), Car(Pos(15, 20, 0), "SafetyCar") >>
FilterInputs ==
    [cars : CarLists(MathCars, MaxLen), player : MathPlayers, radius : MathRadii]
        \cup [cars : {ScenarioCars}, player : {[position |-> Origin, yaw |-> 0]},
              radius : {20}]
        \cup [cars : {TestCars}, player : MathPlayers, radius : {20}]

\* positions that differ in one, two or three coordinates, in sign, or not at
\* all
DistancePositions ==
    {Pos(x, y, z) : x \in {-3, 0, 3}, y \in {0, 4}, z \in {-12, 0, 1}}

InitMath ==
    /\ Init
    /\ ws = "connecting"
    /\ radius = 20

CallUnwrapAngle ==
    /\ call = NoCall
    /\ \E current \in MathAngles, previous \in MathAngles \cup {NULL, NaN} :
        call' = [fn |-> "unwrapAngle", current |-> current, previous |-> previous,
                 ret |-> unwrapAngle(current, previous)]
    /\ UNCHANGED << hookVars, restVars >>

CallCalculateDistance ==
    /\ call = NoCall
    /\ \E pos1 \in DistancePositions, pos2 \in DistancePositions :
        call' = [fn |-> "calculateDistance", pos1 |-> pos1, pos2 |-> pos2,
                 ret |-> calculateDistance(pos1, pos2)]
    /\ UNCHANGED << hookVars, restVars >>

CallFilterCarsInRange ==
    /\ call = NoCall
    /\ \E in \in FilterInputs :
        call' = [fn |-> "filterCarsInRange", cars |-> in.cars,
                 player |-> in.player, radius |-> in.radius,
                 carsAfter |-> InputAfterFilter(in.cars, in.player, in.radius),
                 ret |-> filterCarsInRange(in.cars, in.player, in.radius)]
    /\ UNCHANGED << hookVars, restVars >>

\* positions of a car relative to the player: at the player, above, below,
\* on the four axes, and off the ground on an axis
TransformOffsets ==
    {Pos(0, 0, 0), Pos(0, 0, 5), Pos(0, 0, -5), Pos(2, 0, 0), Pos(0, 2, 0),
     Pos(-2, 0, 0), Pos(0, -2, 0), Pos(3, 0, 4), Pos(0, -3, 4)}
QuarterYaws == {0, PI \div 2, PI, -(PI \div 2), 5 * (PI \div 2)}
Add(p, o) == Pos(p.x + o.x, p.y + o.y, p.z + o.z)

CallTransformToRadarCoordinates ==
    /\ call = NoCall
    /\ \E position \in {Origin, Pos(1, 2, 0)}, yaw \in QuarterYaws,
          offset \in TransformOffsets,
          unwrappedYaw \in {UNDEFINED, PI, -3 * (PI \div 2)},
          previousRelativeAngle \in
              {UNDEFINED, NULL, NaN, 0, 2 * PI, -(PI \div 2)} :
        LET pl == [position |-> position, yaw |-> yaw]
            car == Car(Add(position, offset), "LMDh")
        IN  call' = [fn |-> "transformToRadarCoordinates", car |-> car,
                     player |-> pl, unwrappedYaw |-> unwrappedYaw,
                     previousRelativeAngle |-> previousRelativeAngle,
                     ret |-> transformToRadarCoordinates(
                                 car, pl, unwrappedYaw, previousRelativeAngle)]
    /\ UNCHANGED << hookVars, restVars >>

CallWorldToPixel ==
    /\ call = NoCall
    /\ \E worldX \in {-10, 0, 10}, worldY \in {-10, 0, 10},
          worldRadius \in {-50, 0, 50}, pixelRadius \in {-150, 0, 150} :
        call' = [fn |-> "worldToPixel", worldX |-> worldX, worldY |-> worldY,
                 worldRadius |-> worldRadius, pixelRadius |-> pixelRadius,
                 ret |-> worldToPixel(worldX, worldY, worldRadius, pixelRadius)]
    /\ UNCHANGED << hookVars, restVars >>

\* cars handed to Radar: around the player, 30 m and 60 m ahead, above, and
\* one place taken by cars of several classes
RadarCars ==
    {Car(p, "LMDh") : p \in {Pos(2, 0, 0), Pos(-2, 0, 0), Pos(0, -2, 0),
                              Pos(0, 30, 0), Pos(0, 60, 0), Pos(0, 0, 5)}}
        \cup {Car(Pos(0, 2, 0), c) : c \in {"LMP2", "Unknown", "GT4", "constructor"}}
\* radius and pixelRadius: App's defaults, and a smaller radar
RadarSizes == {<< 50, 150 >>, << 20, 100 >>}

CallRadar ==
    /\ call = NoCall
    /\ \E yaw \in QuarterYaws, carList \in CarLists(RadarCars, MaxDrawn),
          size \in RadarSizes, showLabels \in BOOLEAN :
        LET pl == [position |-> Origin, yaw |-> yaw]
        IN  call' = [fn |-> "Radar", player |-> pl, cars |-> carList,
                     radius |-> size[1], pixelRadius |-> size[2],
                     showLabels |-> showLabels,
                     ret |-> Radar(pl, carList, size[1], size[2], showLabels)]
    /\ UNCHANGED << hookVars, restVars >>

\* Off the quarter turns, Radar's visible-circle test runs on rounded
\* numbers.  Here every number is kept to two decimals, as an integer count
\* of hundredths, and every operation rounds its exact result to the nearest
\* hundredth, as the operations on doubles round to the nearest double.
Round(n, d) == (2 * n + d) \div (2 * d)
\* a * b for two numbers in hundredths
MulRounded(a, b) == Round(a * b, 100)
\* a / b for two whole numbers
DivRounded(a, b) == Round(100 * a, b)
\* Math.sqrt of a sum of two products of hundredths
sqrtRounded(n) ==
    CHOOSE r \in 0..MaxHundredths :
        (2 * r - 1) * (2 * r - 1) <= 4 * n /\ 4 * n < (2 * r + 1) * (2 * r + 1)
\* Math.sin and Math.cos of 0, -1 and 1.5 radians, to two decimals
sinRounded(a) ==
    CASE a = 0 -> 0
      [] a = -100 -> -84
      [] a = 150 -> 100
cosRounded(a) ==
    CASE a = 0 -> 100
      [] a = -100 -> 54
      [] a = 150 -> 7

\* Radar.tsx lines 99-108 for a car on the player's x axis (Math.atan2 and
\* the first Math.sqrt are exact there): whether the car is left out
CulledRounded(car, pl, r, pixelRadius) ==
    LET dx == car.position.x - pl.position.x
        dy == car.position.y - pl.position.y
        horizontalDistance == 100 * sqrt(dx * dx + dy * dy)
        radarAngle == atan2(dy, dx) - pl.yaw
        x == MulRounded(horizontalDistance, sinRounded(radarAngle))
        y == MulRounded(horizontalDistance, cosRounded(radarAngle))
        scale == DivRounded(pixelRadius, r)
        pixel == [x |-> MulRounded(x, scale), y |-> MulRounded(y, scale)]
        distFromCenter == sqrtRounded(pixel.x * pixel.x + pixel.y * pixel.y)
    IN  IF horizontalDistance * 1000 < 100
        THEN FALSE
        ELSE distFromCenter > 100 * pixelRadius

\* yaws of 0, 1 and -1.5 radians; cars on the player's x axis at 10, 20, 50
\* and 60 m, and one 30 m ahead and 40 m above
RenderYaws == {0, 100, -150}
RenderCars ==
    {Car(p, "LMDh") : p \in {Pos(10, 0, 0), Pos(20, 0, 0), Pos(50, 0, 0),
                              Pos(60, 0, 0), Pos(30, 0, 40)}}

\* App renders Radar with the cars the hook published, which
\* filterCarsInRange returned for the same radius
CallRadarOfFiltered ==
    /\ call = NoCall
    /\ \E yaw \in RenderYaws, carList \in CarLists(RenderCars, MaxDrawn),
          size \in RadarSizes :
        LET pl == [position |-> Origin, yaw |-> yaw]
            kept == filterCarsInRange(carList, pl, size[1])
        IN  call' = [fn |-> "Radar of filtered", player |-> pl,
                     cars |-> carList, radius |-> size[1],
                     pixelRadius |-> size[2], kept |-> kept,
                     ret |-> [i \in 1..Len(kept) |->
                                 ~CulledRounded(kept[i], pl, size[1], size[2])]]
    /\ UNCHANGED << hookVars, restVars >>

Return ==
    /\ call # NoCall
    /\ call' = NoCall
    /\ UNCHANGED << hookVars, restVars >>

NextMath ==
    \/ CallUnwrapAngle
    \/ CallCalculateDistance
    \/ CallFilterCarsInRange
    \/ CallTransformToRadarCoordinates
    \/ CallWorldToPixel
    \/ CallRadar
    \/ CallRadarOfFiltered
    \/ Return

SpecMath == InitMath /\ [][NextMath]_vars


\* --------------------------------------- unwrapAngle, statement by statement
\* The two while loops of unwrapAngle run one iteration per step, on
\* doubles.  The call in progress is in call,
\* with the loop it is in (pc) and the parity of the iterations it has run.
LoopCurrents == MathAngles \cup {Huge, NegHuge}
LoopPrevious == {NULL, NaN, 0, 300, -3 * (PI \div 2)}
IsUnwrapRun == call.fn = "unwrapAngle run"

\* lines 20-25: the early return, or delta = currentAngle - previousAngle
UnwrapEnter ==
    /\ call = NoCall
    /\ \E current \in LoopCurrents, previous \in LoopPrevious :
        call' = IF previous = NULL \/ isNaN(previous)
                THEN [fn |-> "unwrapAngle run", current |-> current,
                      previous |-> previous, delta |-> 0, pc |-> "done",
                      odd |-> FALSE, ret |-> current]
                ELSE [fn |-> "unwrapAngle run", current |-> current,
                      previous |-> previous,
                      delta |-> FloatSub(current, previous), pc |-> "above",
                      odd |-> FALSE, ret |-> NULL]
    /\ UNCHANGED << hookVars, restVars >>

\* lines 29-31: while (delta > Math.PI) delta -= 2 * Math.PI
UnwrapLoopAbove ==
    /\ IsUnwrapRun
    /\ call.pc = "above"
    /\ call' = IF call.delta > PI
               THEN [call EXCEPT !.delta = FloatAdd(call.delta, -(2 * PI)),
                                 !.odd = ~call.odd]
               ELSE [call EXCEPT !.pc = "below"]
    /\ UNCHANGED << hookVars, restVars >>

\* lines 32-34 and 41-43: while (delta < -Math.PI) delta += 2 * Math.PI, then
\* unwrapped = previousAngle + delta
UnwrapLoopBelow ==
    /\ IsUnwrapRun
    /\ call.pc = "below"
    /\ call' = IF call.delta < -PI
               THEN [call EXCEPT !.delta = FloatAdd(call.delta, 2 * PI),
                                 !.odd = ~call.odd]
               ELSE [call EXCEPT !.pc = "done",
                                 !.ret = FloatAdd(call.previous, call.delta)]
    /\ UNCHANGED << hookVars, restVars >>

\* the caller takes the result
UnwrapReturn ==
    /\ IsUnwrapRun
    /\ call.pc = "done"
    /\ call' = NoCall
    /\ UNCHANGED << hookVars, restVars >>

NextUnwrap ==
    \/ UnwrapEnter
    \/ UnwrapLoopAbove
    \/ UnwrapLoopBelow
    \/ UnwrapReturn

\* a function that was called keeps running: each loop takes its next step
SpecUnwrap ==
    /\ InitMath
    /\ [][NextUnwrap]_vars
    /\ WF_vars(UnwrapLoopAbove)
    /\ WF_vars(UnwrapLoopBelow)


\* ---------------------------------- the hook on the renderer's single thread
\* Handlers and timer callbacks run one at a time: while a call of
\* unwrapAngle is in progress, no other handler starts.
ThreadFree == call = NoCall

\* a frame whose yaw is beyond 2^56
HugeFrames == [player : [position : {Origin}, yaw : {Huge}], cars : {<< >>}]

\* ws.onmessage with a frame of HugeFrames, when updateRadar returns: no
\* previous yaw is stored, or the stored one equals the frame's
WsMessageHuge ==
    /\ ws = "open"
    /\ isMounted
    /\ \E data \in HugeFrames :
        /\ ~UnwrapDiverges(data.player.yaw)
        /\ updateRadar(data.player, data.cars)
    /\ lastEvent' = "frame"
    /\ framesOnSocket' = Up2(framesOnSocket)
    /\ UNCHANGED << isConnected, radius, ws, reconnectTimeout, isMounted,
                    staleSockets, opens, viaReconnect, thrown, otherVars >>

\* ws.onmessage with a frame, or App's test data button, when updateRadar
\* enters unwrapAngle (line 41) with a delta beyond 2^56: the call starts
\* and nothing has been stored or published yet
UnwrapEnterFromHook ==
    /\ isMounted
    /\ \E yaw \in {TestPlayer.yaw}
                 \cup (IF ws = "open"
                       THEN {f.player.yaw : f \in Frames \cup HugeFrames}
                       ELSE {}) :
        /\ UnwrapDiverges(yaw)
        /\ call' = [fn |-> "unwrapAngle run", current |-> yaw,
                    previous |-> previousYawRef,
                    delta |-> FloatSub(yaw, previousYawRef), pc |-> "above",
                    odd |-> FALSE, ret |-> NULL]
    /\ UNCHANGED << hookVars, restVars >>

NextLive ==
    \/ ThreadFree /\ Next
    \/ ThreadFree /\ WsMessageHuge
    \/ ThreadFree /\ UnwrapEnterFromHook
    \/ UnwrapLoopAbove
    \/ UnwrapLoopBelow

\* a pending setTimeout callback runs once its 3000 ms have passed and the
\* thread is free, unless clearTimeout removes it first; a loop that is
\* running takes its next iteration
SpecLive ==
    /\ Init
    /\ [][NextLive]_vars
    /\ WF_vars(ThreadFree /\ ReconnectTimer)
    /\ WF_vars(UnwrapLoopAbove)
    /\ WF_vars(UnwrapLoopBelow)


\* ------------------------------------------------------------ utils/logger.ts
MAX_BUFFER_SIZE == 1000
\* typeof process !== 'undefined' && process.versions && process.versions.node
\* holds in "node" and not in "browser"; window exists in "browser" only
Envs == {"browser", "node"}
IsNode == env = "node"

\* the module is loaded in either environment
InitLogger ==
    /\ InitHook
    /\ ws = "connecting"
    /\ radius = 20
    /\ LoggerStart
    /\ env \in Envs
    /\ WindowStart
    /\ configFile = NoFile
    /\ SessionsStart

\* flushLogs, called with n strings in the buffer: the buffer is emptied
\* before anything is written; in the browser the strings go to localStorage,
\* or to a download when setItem throws
flushLogs(n) ==
    IF n = 0
    THEN logBuffer' = n /\ UNCHANGED storedLogs
    ELSE /\ logBuffer' = 0
         /\ IF IsNode
            THEN UNCHANGED storedLogs
            ELSE storedLogs' = TRUE \/ UNCHANGED storedLogs

\* log(level, message), the body of logInfo, logWarn, logError and logDebug;
\* the level chooses the console method only
Log ==
    /\ logBuffer < MAX_BUFFER_SIZE + MaxOver
    /\ IF IsNode
       THEN /\ logBuffer' = logBuffer + 1
            /\ UNCHANGED << flushInterval, storedLogs >>
       ELSE IF logBuffer + 1 >= MAX_BUFFER_SIZE
       THEN /\ flushLogs(logBuffer + 1)
            /\ UNCHANGED flushInterval
       ELSE /\ logBuffer' = logBuffer + 1
            /\ flushInterval' = IF flushInterval = "null" THEN "running"
                                                         ELSE flushInterval
            /\ UNCHANGED storedLogs
    /\ UNCHANGED << hookVars, call, env, windowVars, sessionVars >>

\* the setInterval callback of lines 137-141
FlushIntervalTick ==
    /\ flushInterval = "running"
    /\ logBuffer > 0
    /\ flushLogs(logBuffer)
    /\ UNCHANGED << hookVars, call, flushInterval, env, windowVars,
                    sessionVars >>

\* the beforeunload listener of lines 164-169: clearInterval leaves the id in
\* flushInterval
BeforeUnload ==
    /\ ~IsNode
    /\ flushInterval' = IF flushInterval = "null" THEN "null" ELSE "cleared"
    /\ flushLogs(logBuffer)
    /\ UNCHANGED << hookVars, call, env, windowVars, sessionVars >>

\* downloadStoredLogs (window.downloadAppLogs)
DownloadStoredLogs ==
    /\ ~IsNode
    /\ storedLogs
    /\ storedLogs' = FALSE
    /\ UNCHANGED << hookVars, call, logBuffer, flushInterval, env, windowVars,
                    sessionVars >>

NextLogger ==
    \/ Log
    \/ FlushIntervalTick
    \/ BeforeUnload
    \/ DownloadStoredLogs

SpecLogger == InitLogger /\ [][NextLogger]_vars


\* ------------------------------------------------------------ electron/main.cjs
defaultWidth == 350
defaultHeight == 350
\* screen.getPrimaryDisplay().workAreaSize
WorkAreas == {[width |-> 1920, height |-> 1080], [width |-> 1366, height |-> 768]}
defaultX(workArea) == (workArea.width - defaultWidth) \div 2
defaultY(workArea) == (workArea.height - defaultHeight) \div 2 - 200
\* where the user can put the window (a second display lies to the left),
\* and the sizes the user can give it
WindowXs == {-100, 0} \cup {defaultX(w) : w \in WorkAreas}
WindowYs == {0} \cup {defaultY(w) : w \in WorkAreas}
WindowSizes == {200, defaultWidth}

\* JSON.stringify of an integer: a minus sign if it is negative, then the
\* digits of its magnitude; JSON.parse reads it back
StringifyNumber(n) == [minus |-> n < 0, digits |-> Abs(n)]
ParseNumber(t) == IF t.minus THEN 0 - t.digits ELSE t.digits
\* JSON.stringify(config, null, 2) and JSON.parse(data) for the object that
\* saveConfig is given
Stringify(config) == [k \in DOMAIN config |-> StringifyNumber(config[k])]
Parse(data) == [k \in DOMAIN data |-> ParseNumber(data[k])]

\* loadConfig: the parsed file, or null when there is none
loadConfig == IF configFile = NoFile THEN NullObject ELSE Parse(configFile)
\* savedConfig?.key
Member(savedConfig, key) == IF savedConfig = NullObject THEN UNDEFINED ELSE savedConfig[key]
\* a || b for a number a: undefined, null, 0 and NaN are falsy
OrNumber(a, b) == IF a \in {UNDEFINED, NULL, 0, NaN} THEN b ELSE a
\* mutant: x and y are read with ||, like width and height
Nullish_Falsy(a, b) == OrNumber(a, b)
\* a ?? b: only undefined and null give b
Nullish(a, b) == IF a \in {UNDEFINED, NULL} THEN b ELSE a

InitWindow ==
    /\ InitHook
    /\ ws = "connecting"
    /\ radius = 20
    /\ LoggerStart
    /\ env = "node"
    /\ WindowStart
    /\ configFile = NoFile
    /\ SessionsStart

\* createOverlayWindow, lines 33-63: run by app.whenReady() at every launch,
\* and by activate when no window is left
createOverlayWindow ==
    /\ overlayWindow = NullObject
    /\ \E workArea \in WorkAreas :
        LET savedConfig == loadConfig
        IN  overlayWindow' =
                [width |-> OrNumber(Member(savedConfig, "width"), defaultWidth),
                 height |-> OrNumber(Member(savedConfig, "height"), defaultHeight),
                 x |-> Nullish(Member(savedConfig, "x"), defaultX(workArea)),
                 y |-> Nullish(Member(savedConfig, "y"), defaultY(workArea))]
    /\ windowEvent' = "created"
    /\ UNCHANGED << hookVars, call, loggerVars, configFile, sessionVars >>

\* saveConfig of the bounds that getBounds returns
saveBounds(bounds) ==
    configFile' = Stringify([x |-> bounds.x, y |-> bounds.y,
                             width |-> bounds.width, height |-> bounds.height])

\* the user moved the window: the 'moved' handler, lines 82-92
Moved ==
    /\ overlayWindow # NullObject
    /\ \E x \in WindowXs, y \in WindowYs :
        overlayWindow' = [overlayWindow EXCEPT !.x = x, !.y = y]
    /\ saveBounds(overlayWindow')
    /\ windowEvent' = "moved"
    /\ UNCHANGED << hookVars, call, loggerVars, sessionVars >>

\* the user resized the window: the 'resized' handler, lines 94-104
Resized ==
    /\ overlayWindow # NullObject
    /\ \E width \in WindowSizes, height \in WindowSizes :
        overlayWindow' = [overlayWindow EXCEPT !.width = width, !.height = height]
    /\ saveBounds(overlayWindow')
    /\ windowEvent' = "resized"
    /\ UNCHANGED << hookVars, call, loggerVars, sessionVars >>

\* the 'closed' handler, lines 106-108 (Ctrl+Shift+Q, or the application quit)
Closed ==
    /\ overlayWindow # NullObject
    /\ overlayWindow' = NullObject
    /\ windowEvent' = "closed"
    /\ UNCHANGED << hookVars, call, loggerVars, configFile, sessionVars >>

\* Ctrl+Shift+R, lines 116-121: the file is removed and the page reloaded
ResetPosition ==
    /\ overlayWindow # NullObject
    /\ configFile' = NoFile
    /\ windowEvent' = "reset"
    /\ UNCHANGED << hookVars, call, loggerVars, overlayWindow, sessionVars >>

NextWindow ==
    \/ createOverlayWindow
    \/ Moved
    \/ Resized
    \/ Closed
    \/ ResetPosition

SpecWindow == InitWindow /\ [][NextWindow]_vars


\* ------------------------------------------ two instances of useRadarUpdate
\* the radius option each instance is rendered with
SessionRadius(s) == IF s = 1 THEN 20 ELSE 50

\* the frames the instances are fed: the yaw crosses the seam, the cars
\* move, come and go
SessionYaws == {-300, 300}
SessionFrames ==
    [player : [position : {Origin}, yaw : SessionYaws],
     cars : CarLists(FrameCars, MaxCars)]

\* mutant: the refs are declared at module level, one set for all instances
RefOwner_ModuleLevel(s) == 1
\* the instance whose refs instance s reads and writes: useRef is called in
\* the hook's body (lines 29-34), so every instance has refs of its own
RefOwner(s) == s

\* lines 39-43 on a given previous yaw
UnwrappedYawOf(previousYaw, newPlayer) ==
    IF previousYaw # NULL
    THEN unwrapAngle(newPlayer.yaw, previousYaw)
    ELSE newPlayer.yaw

\* updateRadar of instance s, run on the refs it reads: what it stores and
\* what it publishes
updateRadarOf(refs, r, newPlayer, newCars) ==
    LET unwrappedYaw == UnwrappedYawOf(refs.previousYawRef, newPlayer)
        playerWithUnwrappedYaw ==
            [position |-> newPlayer.position, yaw |-> unwrappedYaw]
    IN  [previousYawRef |-> unwrappedYaw,
         previousCarPositionsRef |->
             SetPositions(refs.previousCarPositionsRef, newCars),
         player |-> playerWithUnwrappedYaw,
         cars |-> filterCarsInRange(newCars, playerWithUnwrappedYaw, r)]

\* instance s ingests a frame: the refs of RefOwner(s) are written, and the
\* state of s is set (setPlayer, setCars)
SessionIngest ==
    /\ \E s \in SessionIds, frame \in SessionFrames :
        LET owner == RefOwner(s)
            new == updateRadarOf(sessions[owner], SessionRadius(s),
                                 frame.player, frame.cars)
        IN  /\ \/ isNaN(new.previousYawRef)
               \/ Abs(new.previousYawRef) <= MaxTurns * 2 * PI + PI
            /\ sessions' =
                   [t \in SessionIds |->
                       [previousYawRef |->
                            IF t = owner THEN new.previousYawRef
                                         ELSE sessions[t].previousYawRef,
                        previousCarPositionsRef |->
                            IF t = owner THEN new.previousCarPositionsRef
                                         ELSE sessions[t].previousCarPositionsRef,
                        player |-> IF t = s THEN new.player
                                            ELSE sessions[t].player,
                        cars |-> IF t = s THEN new.cars ELSE sessions[t].cars]]
            /\ lastSession' = s
    /\ UNCHANGED << hookVars, call, loggerVars, windowVars >>

\* an instance is unmounted and mounted again: React gives it new refs and
\* new state
SessionRemount ==
    /\ \E s \in SessionIds :
        /\ sessions[s] # FreshSession
        /\ sessions' = [sessions EXCEPT ![s] = FreshSession]
        /\ lastSession' = s
    /\ UNCHANGED << hookVars, call, loggerVars, windowVars >>

NextSessions ==
    \/ SessionIngest
    \/ SessionRemount

SpecSessions == InitMath /\ [][NextSessions]_vars


\* ------------------------------------------------------------- properties
\* squared distances written out, independently of calculateDistance
Sq3D(a, b) ==
    (b.x - a.x) * (b.x - a.x) + (b.y - a.y) * (b.y - a.y) + (b.z - a.z) * (b.z - a.z)
Sq2D(a, b) == (b.x - a.x) * (b.x - a.x) + (b.y - a.y) * (b.y - a.y)
Within3D(car, pl, r) == r >= 0 /\ Sq3D(pl.position, car.position) <= r * r
Within2D(car, pl, r) == r >= 0 /\ Sq2D(pl.position, car.position) <= r * r
\* what identifies a car besides its computed distance
Key(car) == [position |-> car.position, class |-> car.class]
Occurrences(seq, k) == Cardinality({i \in DOMAIN seq : Key(seq[i]) = k})
\* the keys of the cars of seq at squared distance d from pl, in order
KeysAt(seq, pl, d) ==
    LET AtD(c) == Sq3D(pl.position, c.position) = d
        sel == SelectSeq(seq, AtD)
    IN  [i \in 1..Len(sel) |-> Key(sel[i])]
IsUnwrapCall == call.fn = "unwrapAngle"
IsFilterCall == call.fn = "filterCarsInRange"
\* what a session without history publishes for a frame
FreshOutput(frame, r) ==
    [player |-> frame.player,
     cars |-> filterCarsInRange(frame.cars, frame.player, r)]
Published == [player |-> player, cars |-> cars]
\* the last frame ingested was the first one delivered by a socket that the
\* reconnect timer created after an earlier socket had opened and closed
FirstFrameAfterReconnect ==
    /\ viaReconnect
    /\ opens = 2
    /\ ws = "open"
    /\ framesOnSocket = 1
    /\ lastFrame \in Frames

\* C1: for finite current and previous, the result of unwrapAngle is at most
\* PI away from previous.
C1_UnwrapWithinPi ==
    (IsUnwrapCall /\ call.previous \notin {NULL, NaN})
        => Abs(call.ret - call.previous) <= PI
\* the loops ran more than once: current is more than 3 PI away from previous
C1_Witness ==
    /\ IsUnwrapCall
    /\ call.previous \notin {NULL, NaN}
    /\ call.current - call.previous > 3 * PI
    /\ call.ret # call.current

\* C2: every ingest of a finite yaw after a finite yaw publishes a yaw at most
\* PI away from the yaw published before it, and after an ingest the stored
\* previous yaw is the yaw just published.
C2_Step ==
    /\ (previousYawRef \notin {NULL, NaN} /\ ~isNaN(player'.yaw))
          => Abs(player'.yaw - player.yaw) <= PI
    /\ previousYawRef' # NULL => previousYawRef' = player'.yaw
C2_YawContinuity == [][C2_Step]_vars
\* a second frame on a socket whose raw yaw was moved by a full turn
C2_Witness ==
    /\ framesOnSocket = 2
    /\ previousYawRef = player.yaw
    /\ player.yaw = lastFrame.player.yaw + 2 * PI

\* C3: after reset() a frame identical to the seed frame is published as the
\* seed frame was: the program has no reset(), the point at which the session
\* is required to be reset is the reconnection, and what a fresh session
\* publishes for the frame is what it published for an identical seed frame.
C3_ResetReproducesSeed ==
    FirstFrameAfterReconnect => Published = FreshOutput(lastFrame, radius)

\* C4: the first frame of a connection that follows a dropped connection has
\* its yaw published unchanged (seeded), not unwrapped against the yaw stored
\* before the gap.
C4_ReconnectSeedsYaw ==
    FirstFrameAfterReconnect => player.yaw = lastFrame.player.yaw

\* C5: after a frame is ingested the session holds an unwrapped relative
\* angle for every slot index of that frame.
C5_SlotAnglesStored ==
    lastFrame # NoFrame =>
        \A k \in 0..(Len(lastFrame.cars) - 1) : k \in DOMAIN previousRelativeAnglesRef

\* C6: every car in the output of filterCarsInRange is at a 3D distance of at
\* most radius from the player.
C6_OutputWithinRadius ==
    IsFilterCall =>
        \A i \in DOMAIN call.ret : Within3D(call.ret[i], call.player, call.radius)
\* some cars were kept and some were dropped
C6_Witness ==
    /\ IsFilterCall
    /\ Len(call.ret) >= 1
    /\ Len(call.ret) < Len(call.cars)

\* C7: the output of filterCarsInRange is in ascending order of 3D distance.
C7_OutputSorted ==
    IsFilterCall =>
        \A i \in 1..(Len(call.ret) - 1) :
            Sq3D(call.player.position, call.ret[i].position)
                <= Sq3D(call.player.position, call.ret[i + 1].position)
\* the input had a farther car before a nearer one, and both were kept
C7_Witness ==
    /\ IsFilterCall
    /\ Len(call.cars) >= 2
    /\ Len(call.ret) = Len(call.cars)
    /\ Sq3D(call.player.position, call.cars[1].position)
           > Sq3D(call.player.position, call.cars[2].position)

\* C8: the output of filterCarsInRange holds exactly the input cars within
\* radius, each as many times as the input holds it, so it is never longer
\* than the input; radius 20 keeps 7.07, 8.54 and 14.14 and drops 25.
C8_ExactlyInRange ==
    IsFilterCall =>
        /\ \A j \in DOMAIN call.cars :
              Occurrences(call.ret, Key(call.cars[j])) =
                  IF Within3D(call.cars[j], call.player, call.radius)
                  THEN Occurrences(call.cars, Key(call.cars[j]))
                  ELSE 0
        /\ \A i \in DOMAIN call.ret : Occurrences(call.cars, Key(call.ret[i])) > 0
        /\ Len(call.ret) <= Len(call.cars)
        /\ (call.cars = ScenarioCars /\ call.radius = 20) =>
              [i \in DOMAIN call.ret |-> Key(call.ret[i])] =
                  [i \in 1..3 |-> Key(ScenarioCars[i])]
\* the radius-20 scenario
C8_Witness ==
    /\ IsFilterCall
    /\ call.cars = ScenarioCars
    /\ call.radius = 20
    /\ Len(call.ret) = 3

\* C9: cars at equal distance keep in the output the order they have in the
\* input.
C9_StableOnTies ==
    IsFilterCall =>
        \A i \in DOMAIN call.ret :
            LET d == Sq3D(call.player.position, call.ret[i].position)
            IN  KeysAt(call.ret, call.player, d) = KeysAt(call.cars, call.player, d)
\* two different cars at the same distance were kept
C9_Witness ==
    /\ IsFilterCall
    /\ \E i \in 1..(Len(call.ret) - 1) :
          /\ Key(call.ret[i]) # Key(call.ret[i + 1])
          /\ Sq3D(call.player.position, call.ret[i].position)
                 = Sq3D(call.player.position, call.ret[i + 1].position)

\* C10: a car within radius horizontally but farther than radius in 3D is not
\* in the output of filterCarsInRange.
C10_ExcludedBy3D ==
    IsFilterCall =>
        \A j \in DOMAIN call.cars :
            (/\ Within2D(call.cars[j], call.player, call.radius)
             /\ ~Within3D(call.cars[j], call.player, call.radius))
                => Occurrences(call.ret, Key(call.cars[j])) = 0
\* such a car was in the input, next to a car that was kept
C10_Witness ==
    /\ IsFilterCall
    /\ Len(call.ret) >= 1
    /\ \E j \in DOMAIN call.cars :
          /\ Within2D(call.cars[j], call.player, call.radius)
          /\ ~Within3D(call.cars[j], call.player, call.radius)

\* C13: for finite current and previous, the result of unwrapAngle differs
\* from current by a whole number of full turns (2 PI).
C13_UnwrapCongruent ==
    (IsUnwrapCall /\ call.previous \notin {NULL, NaN})
        => (call.ret - call.current) % (2 * PI) = 0
\* the result is two full turns below current
C13_Witness ==
    /\ IsUnwrapCall
    /\ call.previous \notin {NULL, NaN}
    /\ call.ret = call.current - 2 * (2 * PI)

\* C14: when previous is null or NaN, unwrapAngle returns current unchanged.
C14_SeedReturnsCurrent ==
    (IsUnwrapCall /\ call.previous \in {NULL, NaN}) => call.ret = call.current
\* a NaN previous and a current outside [-PI, PI]
C14_Witness ==
    /\ IsUnwrapCall
    /\ isNaN(call.previous)
    /\ Abs(call.current) > PI
    /\ call.ret = call.current

\* a frame with player and cars, or the test data, arrived in the step
Ingested == lastEvent' \in {"frame", "test"}
\* the message received in the step lacks player or cars, or is not JSON
Malformed == lastEvent' = "malformed"
\* the next frame's yaw would be returned as it comes, not unwrapped
Seeding == previousYawRef = NULL \/ isNaN(previousYawRef)

\* C15: when no previous yaw is stored, ingesting a frame publishes the
\* frame's raw yaw and stores it as the previous yaw.
C15_Step ==
    (previousYawRef = NULL /\ Ingested)
        => /\ player'.yaw = lastFrame'.player.yaw
           /\ previousYawRef' = lastFrame'.player.yaw
C15_FreshSeedsRawYaw == [][C15_Step]_vars
\* the only frame ever ingested: one socket opened, it delivered one frame,
\* the test data (four slots) were never loaded; its yaw is not 0, the
\* initial yaw
C15_Witness ==
    /\ opens = 1
    /\ framesOnSocket = 1
    /\ lastEvent = "frame"
    /\ DOMAIN previousCarPositionsRef \subseteq {0}
    /\ lastFrame.player.yaw = -300
    /\ player.yaw = -300
    /\ previousYawRef = -300

\* C16: once the stored previous yaw is a number, no event brings the
\* session back to a state in which the next frame's yaw is seeded.
C16_Step == ~Seeding => ~Seeding'
C16_NeverSeedsAgain == [][C16_Step]_vars

\* C17: a message without player, without cars or that is not JSON leaves
\* the stored previous yaw, the stored slots and the published player and
\* cars as they were.
C17_Step == Malformed => UNCHANGED << contVars, outVars >>
C17_RejectedChangesNothing == [][C17_Step]_vars
\* a message was rejected after a frame had been ingested
C17_Witness ==
    /\ lastEvent = "malformed"
    /\ lastFrame \in Frames
    /\ previousYawRef = 328
    /\ Len(cars) = 1

\* C19: every ingested frame replaces the stored previous yaw by the unwrap
\* of its yaw against the stored one (its yaw itself when none is stored)
\* and publishes its player and its cars within radius; every other step
\* leaves the stored yaw and the published player and cars alone.
C19_Step ==
    IF Ingested
    THEN LET frame == lastFrame'
         IN  /\ previousYawRef' =
                    IF previousYawRef = NULL
                    THEN frame.player.yaw
                    ELSE unwrapAngle(frame.player.yaw, previousYawRef)
             /\ player' = [position |-> frame.player.position,
                           yaw |-> previousYawRef']
             /\ \A i \in DOMAIN cars' :
                   /\ Occurrences(frame.cars, Key(cars'[i])) > 0
                   /\ Within3D(cars'[i], frame.player, radius)
             /\ \A j \in DOMAIN frame.cars :
                   Within3D(frame.cars[j], frame.player, radius)
                       => Occurrences(cars', Key(frame.cars[j])) > 0
    ELSE UNCHANGED << previousYawRef, player, cars, lastFrame >>
IsTransformCall == call.fn = "transformToRadarCoordinates"
IsWorldToPixelCall == call.fn = "worldToPixel"
IsRadarCall == call.fn = "Radar"
\* the direction a yaw on the quarter-turn grid points to: 0 is the x axis,
\* PI / 2 the y axis
Heading(yaw) ==
    CASE yaw % (2 * PI) = 0 -> [x |-> 1, y |-> 0]
      [] yaw % (2 * PI) = PI \div 2 -> [x |-> 0, y |-> 1]
      [] yaw % (2 * PI) = PI -> [x |-> -1, y |-> 0]
      [] yaw % (2 * PI) = 3 * (PI \div 2) -> [x |-> 0, y |-> -1]
\* the car is h > 0 metres from the player in the direction the player faces
Ahead(car, pl, h) ==
    /\ h > 0
    /\ car.position.x - pl.position.x = h * Heading(pl.yaw).x
    /\ car.position.y - pl.position.y = h * Heading(pl.yaw).y
\* the car is h > 0 metres from the player in the opposite direction
Behind(car, pl, h) ==
    /\ h > 0
    /\ car.position.x - pl.position.x = -h * Heading(pl.yaw).x
    /\ car.position.y - pl.position.y = -h * Heading(pl.yaw).y
Recognised == {"LMDh", "LMP2", "LMGT3", "SafetyCar", "Unknown"}

\* C11: a car with no horizontal offset from the player (above, below or at
\* the player) gets x = 0, y = 0, relativeAngle = 0 and the full 3D distance,
\* whatever the yaw and the previous relative angle; player (0,0,0) and car
\* (0,0,5) give distance 5.
C11_DegenerateGeometry ==
    (IsTransformCall /\ Sq2D(call.player.position, call.car.position) = 0)
        => /\ call.ret.x = 0
           /\ call.ret.y = 0
           /\ call.ret.relativeAngle = 0
           /\ call.ret.distance >= 0
           /\ call.ret.distance * call.ret.distance
                  = Sq3D(call.player.position, call.car.position)
           /\ (call.player.position = Origin /\ call.car.position = Pos(0, 0, 5))
                  => call.ret.distance = 5
\* the car is 5 m above a player who is not at the origin, a yaw and a
\* previous relative angle a full turn away are supplied
C11_Witness ==
    /\ IsTransformCall
    /\ call.player.position = Pos(1, 2, 0)
    /\ call.car.position = Pos(1, 2, 5)
    /\ call.unwrappedYaw = PI
    /\ call.previousRelativeAngle = 2 * PI
    /\ call.ret.distance = 5

C18_NonPositiveRadiusFails ==
    (IsWorldToPixelCall /\ call.worldRadius <= 0) => call.ret.threw

\* C20: a car whose class is not one of the recognised classes is drawn with
\* the colour of Unknown.
C20_UnknownClassColour ==
    IsRadarCall =>
        \A i \in DOMAIN call.cars :
            (call.ret[i].visible /\ call.cars[i].class \notin Recognised)
                => /\ call.ret[i].fillStyle = "#FFFFFF"
                   /\ call.ret[i].strokeStyle = "#FFFFFF"

IsDistanceCall == call.fn = "calculateDistance"

\* C23: for finite current and previous, unwrapping the result of unwrapAngle
\* again against the same previous returns that result, and a second call
\* with the same arguments returns the same result.
C23_UnwrapIdempotent ==
    (IsUnwrapCall /\ call.previous \notin {NULL, NaN})
        => /\ unwrapAngle(call.ret, call.previous) = call.ret
           /\ unwrapAngle(call.current, call.previous) = call.ret
\* the first call moved current by three full turns
C23_Witness ==
    /\ IsUnwrapCall
    /\ call.previous \notin {NULL, NaN}
    /\ call.ret = call.current + 3 * (2 * PI)

\* C24: for a finite angle a, unwrapAngle(a, a) is a.
C24_UnwrapSelf ==
    (IsUnwrapCall /\ call.previous \notin {NULL, NaN}
                  /\ call.current = call.previous)
        => call.ret = call.current
\* an angle more than a full turn away from 0, unwrapped against itself
C24_Witness ==
    /\ IsUnwrapCall
    /\ call.current = call.previous
    /\ call.current < -2 * PI
    /\ call.ret = call.current

\* C25: calculateDistance(a, b) = calculateDistance(b, a), and it is 0
\* exactly when a and b have the same x, y and z.
C25_DistanceSymmetric ==
    IsDistanceCall
        => /\ call.ret = calculateDistance(call.pos2, call.pos1)
           /\ call.ret = 0 <=> (/\ call.pos1.x = call.pos2.x
                                /\ call.pos1.y = call.pos2.y
                                /\ call.pos1.z = call.pos2.z)
\* two points that differ in all three coordinates, the second below and
\* behind the first
C25_Witness ==
    /\ IsDistanceCall
    /\ call.pos1 = Pos(3, 4, 0)
    /\ call.pos2 = Pos(-3, 0, -12)
    /\ call.ret = 36 + 16 + 144

\* C28: with a horizontal offset, the relativeAngle returned by
\* transformToRadarCoordinates is atan2(dy, dx) when no previous relative
\* angle is supplied; when one is supplied it is within PI of it and differs
\* from atan2(dy, dx) by full turns.
C28_RelativeAngle ==
    (IsTransformCall /\ Sq2D(call.player.position, call.car.position) > 0)
        => LET bearing == atan2(call.car.position.y - call.player.position.y,
                                call.car.position.x - call.player.position.x)
           IN  /\ call.previousRelativeAngle = UNDEFINED
                     => call.ret.relativeAngle = bearing
               /\ call.previousRelativeAngle \notin {UNDEFINED, NULL, NaN}
                     => /\ Abs(call.ret.relativeAngle
                                   - call.previousRelativeAngle) <= PI
                        /\ (call.ret.relativeAngle - bearing) % (2 * PI) = 0
\* a bearing of PI / 2 returned a full turn higher, next to a previous angle
\* of 2 PI
C28_Witness ==
    /\ IsTransformCall
    /\ call.previousRelativeAngle = 2 * PI
    /\ call.ret.relativeAngle = 5 * (PI \div 2)

\* C27: every call of unwrapAngle with a finite current and previous leaves
\* its two loops.
C27_UnwrapTerminates == IsUnwrapRun ~> (IsUnwrapRun /\ call.pc = "done")

\* C29: no step removes a stored slot index, and a stored entry changes only
\* when a frame is ingested that has an entity at that index.
C29_SlotsKept ==
    [][ /\ DOMAIN previousCarPositionsRef \subseteq DOMAIN previousCarPositionsRef'
        /\ \A k \in DOMAIN previousCarPositionsRef :
              (~Ingested \/ k >= Len(lastFrame'.cars))
                  => previousCarPositionsRef'[k] = previousCarPositionsRef[k] ]_vars
\* a frame with fewer entities than slots are stored has been ingested
C29_Witness ==
    /\ lastEvent = "frame"
    /\ Cardinality(DOMAIN previousCarPositionsRef) > Len(lastFrame.cars)

\* the effect's socket has closed, or its construction threw
Disconnected == isMounted /\ ws \in {"closed", "none"}

\* C21: while the hook is mounted and its socket has closed or could not be
\* constructed, isConnected is false and the reconnect timer is pending, and
\* connectWebSocket is eventually called again (it constructs a socket, or
\* new WebSocket throws once more) unless the hook is unmounted first; this
\* holds after every close and every throw.
C21_Reconnects ==
    /\ [](Disconnected => ~isConnected /\ reconnectTimeout)
    /\ \A b \in BOOLEAN :
          (Disconnected /\ thrown = b)
              ~> (ws = "connecting" \/ thrown # b \/ ~isMounted)
\* a socket opened and closed, the timer called connectWebSocket, and the
\* socket it made has closed as well
C21_Witness ==
    /\ Disconnected
    /\ viaReconnect
    /\ opens >= 1
    /\ ws = "closed"

\* C30: in every environment the log buffer never holds more than
\* MAX_BUFFER_SIZE strings.
C30_BufferBounded == logBuffer <= MAX_BUFFER_SIZE

C22_SessionsIndependent ==
    [][\A t \in SessionIds \ {lastSession'} : sessions'[t] = sessions[t]]_vars
\* both instances hold a previous yaw and slots, and they differ
C22_Witness ==
    /\ \A s \in SessionIds :
          /\ sessions[s].previousYawRef # NULL
          /\ DOMAIN sessions[s].previousCarPositionsRef # {}
    /\ sessions[1].previousYawRef # sessions[2].previousYawRef
    /\ sessions[1].previousCarPositionsRef # sessions[2].previousCarPositionsRef

C36_KeptIsDrawn ==
    call.fn = "Radar of filtered" => \A i \in 1..Len(call.ret) : call.ret[i]

\* C31: when updateRadar throws on a frame that has player and cars, the
\* stored previous yaw, the stored previous positions and the published
\* player and cars are what they were before the frame.
C31_Step ==
    lastEvent' = "thrown" =>
        UNCHANGED << previousYawRef, previousPlayerPositionRef,
                     previousCarPositionsRef, player, cars >>
C31_ThrowLeavesState == [][C31_Step]_vars

\* C32: isConnected is true only while the socket of the current connection
\* effect has fired open and has not errored or closed since, also after
\* the effect was torn down and run again for a new radius.
C32_ConnectedMeansOpen == isConnected => ws = "open"

\* C33: every published car is within the radius configured now of the
\* published player, whatever frames and radius changes came before.
C33_CarsWithinCurrentRadius ==
    \A i \in 1..Len(cars) : Within3D(cars[i], player, radius)

\* the socket of the current effect is connecting or open; the sockets of
\* the effects torn down before were closed by the cleanup (ws.close()) and
\* are closing or closed
SocketLive == ws \in {"connecting", "open"}

\* C34: a hook never has two sockets connecting or open, never two pending
\* reconnect timers, and never a pending timer while its socket is
\* connecting or open: a timer is pending only beside a closed or missing
\* socket, the timer callback creates a socket only then, and onclose
\* schedules a timer only when none is pending.
C34_Step ==
    /\ reconnectTimeout => ~SocketLive
    /\ reconnectTimeout' => ~SocketLive'
    /\ ReconnectTimer => ~SocketLive
    /\ (WsClose /\ isMounted) => ~reconnectTimeout
C34_OneSocketOneTimer == [][C34_Step]_vars
\* the second socket, opened by the timer, has closed and a timer is
\* pending again
C34_Witness ==
    /\ reconnectTimeout
    /\ viaReconnect
    /\ opens = 2
    /\ ws = "closed"

\* C35: after the cleanup of the connection effect, the effect opens no
\* socket and schedules no reconnection, and no event of its socket or
\* timer changes player, cars, isConnected or the continuity state.
C35_Step ==
    /\ ~isMounted =>
          /\ UNCHANGED << player, cars, isConnected, contVars >>
          /\ ~reconnectTimeout'
          /\ ws' # "connecting"
          /\ opens' = opens
    /\ (StaleOpen \/ StaleMessage \/ StaleError \/ StaleClose) =>
          UNCHANGED << player, cars, isConnected, contVars, ws,
                       reconnectTimeout, opens >>
C35_CleanupIsFinal == [][C35_Step]_vars
\* the hook was unmounted while connected and showing cars, and its socket
\* has fired close since
C35_Witness ==
    /\ ~isMounted
    /\ ws = "closed"
    /\ isConnected
    /\ Len(cars) > 0
    /\ previousYawRef # NULL

=============================================================================
